---- MODULE Spec2Model ----
(***************************************************************************)
(* Playback coordinator of the Soundraw extension (lib/audio):             *)
(* PlaybackStateManager, playAudio, stopAudio and cleanupPlayback, with    *)
(* the QuickTime Player behind the automation bridge and the /tmp files    *)
(* behind getOrDownloadFile as the environment.                            *)
(*                                                                         *)
(* JavaScript runs one callback at a time, so every action is the code     *)
(* between two awaits: a request handler up to its first await, or the     *)
(* continuation that runs when an awaited bridge call or fetch returns.    *)
(*                                                                         *)
(* Four parts share the module: the playback coordinator (Spec, LiveSpec,  *)
(* TeardownSpec), the configuration store with the API client (ApiSpec),   *)
(* the file cache with prepareFiles (CacheSpec) and the selection handler  *)
(* of the search view (SelectSpec). Each leaves the others' variables be.  *)
(***************************************************************************)
EXTENDS Integers, Sequences, FiniteSets

\* Bounds of the model: requests a run issues.
MaxPlays == 2
MaxStops == 2
MaxTeardowns == 1
MaxLiveRequests == 4

\* Samples of the search result, by id, and the subscribed components.
Samples == {"A", "B"}
Listeners == {"l1"}

\* sampleId: null / tempPath: undefined
Null == "null"

VARIABLES
  sampleId,      \* PlaybackStateManager.sampleId
  tempPath,      \* PlaybackStateManager.tempPath
  listeners,     \* PlaybackStateManager.listeners
  playbackQueue, \* PlaybackStateManager.playbackQueue: index of the operation at the tail of the chain, 0 for the initial resolved promise
  ops,           \* operations handed to enqueuePlayback by playAudio, in call order
  stops,         \* stopAudio calls made by the callers (PlayStopAction, handleSelectionChange), in call order
  teardowns,     \* number of cleanupPlayback calls
  files,         \* paths that exist in /tmp
  docs,          \* documents open in QuickTime Player, front document first
  lastReq,       \* the request issued last: "stop" for a stopAudio call of a component, "other" otherwise
  notified,      \* whether the last step called notifyListeners
  lastNotified,  \* per listener, the value of its last invocation
  seenAtNotify,  \* <<sampleId, tempPath>> as a listener reads them during the last notifyListeners call
  raw,           \* LocalStorage item "soundraw_state"
  mut,           \* the saveSoundrawConfig or deleteSoundrawConfig call in flight
  lastDone,      \* the last saveSoundrawConfig or deleteSoundrawConfig call that returned, with its arguments
  mutations,     \* number of saveSoundrawConfig and deleteSoundrawConfig calls
  calls,         \* makeRequest calls, in call order
  disk,          \* per sample, the file at its expected path in /tmp
  writer,        \* per sample, the getOrDownloadFile call whose download wrote the file now at the path, 0 if none
  reqs,          \* getOrDownloadFile calls, in call order
  runs,          \* prepareFiles runs of the search view, in order
  filePaths,     \* filePaths state of the search view: the samples a path is published for
  tempOf,        \* the sample whose file is the temp file of the playback session
  selectedSampleIdRef, \* selectedSampleIdRef.current of the search view
  selections     \* onSelectionChange events of the list, in order, each with how far its handler has got

audioVars == <<sampleId, tempPath, listeners, playbackQueue, ops, stops, teardowns,
               files, docs, lastReq, notified, lastNotified, seenAtNotify>>

apiVars == <<raw, mut, lastDone, mutations, calls>>

cacheVars == <<disk, writer, reqs, runs, filePaths, tempOf>>

viewVars == <<selectedSampleIdRef, selections>>

vars == <<audioVars, apiVars, cacheVars, viewVars>>

\* getExpectedFilePath(url, name, null, "/tmp"): one path per (url, name)
PathOf(s) == "/tmp/" \o s

\* Operations that are executing: past the start of their callback, not yet settled.
Running == {i \in 1..Len(ops) : ops[i].pc \in {"stop_bridge", "fetching", "opening"}}

\* Operations whose promise is still pending.
Pending == {i \in 1..Len(ops) : ops[i].pc # "settled"}

\* A StoredState object: soundrawConfig is <<>> for undefined, <<config>> otherwise.
EmptyState == [soundrawConfig |-> <<>>]

\* No storage call in flight.
NoMutation == [kind |-> "none", token |-> <<>>, apiBaseUrl |-> <<>>, state |-> EmptyState]

\* No file at a path.
NoFile == [exists |-> FALSE, bytes |-> <<>>]

Init ==
  /\ sampleId = Null
  /\ tempPath = Null
  /\ listeners = {}
  /\ playbackQueue = 0
  /\ ops = <<>>
  /\ stops = <<>>
  /\ teardowns = 0
  /\ files = {}
  /\ docs = <<>>
  /\ lastReq = "other"
  /\ notified = FALSE
  /\ lastNotified = [l \in Listeners |-> "never"]
  /\ seenAtNotify = <<Null, Null>>
  /\ raw = [present |-> FALSE, text |-> <<>>]
  /\ mut = NoMutation
  /\ lastDone = [kind |-> "none", token |-> <<>>, apiBaseUrl |-> <<>>]
  /\ mutations = 0
  /\ calls = <<>>
  /\ disk = [s \in Samples |-> NoFile]
  /\ writer = [s \in Samples |-> 0]
  /\ reqs = <<>>
  /\ runs = <<>>
  /\ filePaths = {}
  /\ tempOf = Null
  /\ selectedSampleIdRef = Null
  /\ selections = <<>>

\* notifyListeners called before the assignment: the listeners get the value
\* sampleId had until now.
NotifyListeners_Stale(sid, path) ==
  /\ lastNotified' = [l \in Listeners |-> IF l \in listeners THEN sampleId ELSE lastNotified[l]]
  /\ notified' = TRUE
  /\ seenAtNotify' = <<sid, path>>

\* PlaybackStateManager.notifyListeners: every listener in the set is invoked
\* with this.sampleId, which the caller has just assigned.
NotifyListeners(sid, path) ==
  /\ lastNotified' = [l \in Listeners |-> IF l \in listeners THEN sid ELSE lastNotified[l]]
  /\ notified' = TRUE
  /\ seenAtNotify' = <<sid, path>>

\* A step that does not call notifyListeners.
NoNotify ==
  /\ notified' = FALSE
  /\ UNCHANGED <<lastNotified, seenAtNotify>>

\* setPlayingState as the first-generation view did it: the sample id is
\* published while the temp path is still the old one.
SetPlayingState_IdOnly(sid, path) ==
  /\ sampleId' = sid
  /\ tempPath' = tempPath
  /\ NotifyListeners(sid, tempPath)

\* PlaybackStateManager.setPlayingState
SetPlayingState(sid, path) ==
  /\ sampleId' = sid
  /\ tempPath' = path
  /\ NotifyListeners(sid, path)

\* cleanup without the unlink.
Cleanup_KeepFile ==
  /\ files' = files
  /\ tempPath' = Null
  /\ sampleId' = Null
  /\ NotifyListeners(Null, Null)

\* PlaybackStateManager.cleanup: unlink the temp file if there is one, clear
\* both fields, notify.
Cleanup ==
  /\ files' = IF tempPath # Null THEN files \ {tempPath} ELSE files
  /\ tempPath' = Null
  /\ sampleId' = Null
  /\ NotifyListeners(Null, Null)

\* enqueuePlayback without the catch: the promise settles as the operation did.
QueueSettle_NoCatch(outcome) == outcome

\* enqueuePlayback, `.catch(...)`: how the promise of an operation settles,
\* given how the operation itself ended.
QueueSettle(outcome) == "fulfilled"

\* enqueuePlayback without the assignment: the tail stays where it was.
EnqueueTail_Stale(newOp) == playbackQueue

\* enqueuePlayback, `this.playbackQueue = operationPromise.then(...)`: the new
\* tail of the chain.
EnqueueTail(newOp) == newOp

\* A chain that a failed operation leaves pending for ever.
ChainState_Stuck(i) ==
  IF ops[i].waitsOn = 0 THEN "fulfilled"
  ELSE IF ops[ops[i].waitsOn].result = "failed" THEN "pending"
  ELSE ops[ops[i].waitsOn].promise

\* State of the promise the callback of operation i was chained on.
ChainState(i) ==
  IF ops[i].waitsOn = 0 THEN "fulfilled" ELSE ops[ops[i].waitsOn].promise

\* stopAudio without the early return.
IsPlayingNow_Always(sid) == TRUE

\* stopAudio, `if (currentSampleId)`: FALSE is the early return.
IsPlayingNow(sid) == sid # Null

\* stopAudio with the cleanup at the end of the try block instead of in
\* finally: a failed stop script leaves the session as it was.
StopAudioDone_NoFinally(ok) ==
  IF ok
    THEN /\ docs' = IF docs # <<>> THEN Tail(docs) ELSE docs
         /\ Cleanup
    ELSE /\ UNCHANGED <<docs, files, tempPath, sampleId>>
         /\ NoNotify

\* stopAudio once its bridge call has returned: the stop script closes the
\* front document when it ran, a failure is caught, and cleanup runs in the
\* finally block either way.
StopAudioDone(ok) ==
  /\ docs' = IF ok /\ docs # <<>> THEN Tail(docs) ELSE docs
  /\ Cleanup

\* stopAudio, try/catch/finally: how its promise settles.
StopAudioSettle(ok) == "fulfilled"

\* playAudio(url, id, name) up to its await: enqueuePlayback chains the
\* operation on the tail of the queue.
PlayAudio(s) ==
  /\ Len(ops) < MaxPlays
  /\ ops' = Append(ops, [sample |-> s, pc |-> "queued", result |-> "none",
                         promise |-> "pending", waitsOn |-> playbackQueue])
  /\ playbackQueue' = EnqueueTail(Len(ops) + 1)
  /\ lastReq' = "other"
  /\ NoNotify
  /\ UNCHANGED <<sampleId, tempPath, listeners, stops, teardowns, files, docs>>
  /\ UNCHANGED <<apiVars, cacheVars, viewVars>>

\* The start of an operation as the first-generation view did it: the sample
\* id is set and published before the file is fetched.
OpStart_EarlyState(i) ==
  /\ i \in 1..Len(ops)
  /\ ops[i].pc = "queued"
  /\ ChainState(i) # "pending"
  /\ IF IsPlayingNow(sampleId)
       THEN /\ ops' = [ops EXCEPT ![i].pc = "stop_bridge"]
            /\ NoNotify
            /\ UNCHANGED <<sampleId, tempPath>>
       ELSE /\ ops' = [ops EXCEPT ![i].pc = "fetching"]
            /\ SetPlayingState(ops[i].sample, PathOf(ops[i].sample))
  /\ UNCHANGED <<listeners, playbackQueue, stops, teardowns, files, docs, lastReq>>
  /\ UNCHANGED <<apiVars, cacheVars, viewVars>>

\* The callback of operation i runs once the promise it was chained on has
\* settled: it is skipped when that promise rejected, and otherwise calls
\* stopAudio, which sends the stop script or returns at once.
OpStart(i) ==
  /\ i \in 1..Len(ops)
  /\ ops[i].pc = "queued"
  /\ ChainState(i) # "pending"
  /\ IF ChainState(i) = "rejected"
       THEN ops' = [ops EXCEPT ![i].pc = "settled", ![i].result = "skipped",
                               ![i].promise = QueueSettle("rejected")]
       ELSE IF IsPlayingNow(sampleId)
         THEN ops' = [ops EXCEPT ![i].pc = "stop_bridge"]
         ELSE ops' = [ops EXCEPT ![i].pc = "fetching"]
  /\ NoNotify
  /\ UNCHANGED <<sampleId, tempPath, listeners, playbackQueue, stops, teardowns,
                 files, docs, lastReq>>
  /\ UNCHANGED <<apiVars, cacheVars, viewVars>>

\* The stop script of operation i returns; the operation goes on to
\* getOrDownloadFile.
OpStopDone(i, ok) ==
  /\ i \in 1..Len(ops)
  /\ ops[i].pc = "stop_bridge"
  /\ StopAudioDone(ok)
  /\ IF StopAudioSettle(ok) = "fulfilled"
       THEN ops' = [ops EXCEPT ![i].pc = "fetching"]
       ELSE ops' = [ops EXCEPT ![i].pc = "settled", ![i].result = "failed",
                               ![i].promise = QueueSettle("rejected")]
  /\ UNCHANGED <<listeners, playbackQueue, stops, teardowns, lastReq>>
  /\ UNCHANGED <<apiVars, cacheVars, viewVars>>

\* getOrDownloadFile returns for operation i. A file already at the path is
\* a cache hit; a miss downloads and may fail. On success the state is set
\* and the open-and-play script is sent; on failure the catch block cleans up
\* and rethrows.
OpFetchDone(i, ok) ==
  /\ i \in 1..Len(ops)
  /\ ops[i].pc = "fetching"
  /\ PathOf(ops[i].sample) \in files => ok
  /\ IF ok
       THEN /\ files' = files \cup {PathOf(ops[i].sample)}
            /\ SetPlayingState(ops[i].sample, PathOf(ops[i].sample))
            /\ ops' = [ops EXCEPT ![i].pc = "opening"]
       ELSE /\ Cleanup
            /\ ops' = [ops EXCEPT ![i].pc = "settled", ![i].result = "failed",
                                  ![i].promise = QueueSettle("rejected")]
  /\ UNCHANGED <<listeners, playbackQueue, stops, teardowns, docs, lastReq>>
  /\ UNCHANGED <<apiVars, cacheVars, viewVars>>

\* The open-and-play script of operation i returns. It cannot succeed on a
\* file that is no longer there. On failure the catch block cleans up and
\* rethrows.
OpOpenDone(i, ok) ==
  /\ i \in 1..Len(ops)
  /\ ops[i].pc = "opening"
  /\ ok => PathOf(ops[i].sample) \in files
  /\ IF ok
       THEN /\ docs' = <<ops[i].sample>> \o SelectSeq(docs, LAMBDA d : d # ops[i].sample)
            /\ ops' = [ops EXCEPT ![i].pc = "settled", ![i].result = "ok",
                                  ![i].promise = QueueSettle("fulfilled")]
            /\ NoNotify
            /\ UNCHANGED <<sampleId, tempPath, files>>
       ELSE /\ Cleanup
            /\ UNCHANGED docs
            /\ ops' = [ops EXCEPT ![i].pc = "settled", ![i].result = "failed",
                                  ![i].promise = QueueSettle("rejected")]
  /\ UNCHANGED <<listeners, playbackQueue, stops, teardowns, lastReq>>
  /\ UNCHANGED <<apiVars, cacheVars, viewVars>>

\* stopAudio() called by a component, up to its await: the early return when
\* nothing plays, the stop script sent otherwise.
StopAudio ==
  /\ Len(stops) < MaxStops
  /\ IF IsPlayingNow(sampleId)
       THEN stops' = Append(stops, [sid |-> sampleId, pc |-> "bridge", ok |-> "none",
                                    promise |-> "pending"])
       ELSE stops' = Append(stops, [sid |-> sampleId, pc |-> "done", ok |-> "none",
                                    promise |-> "fulfilled"])
  /\ lastReq' = "stop"
  /\ NoNotify
  /\ UNCHANGED <<sampleId, tempPath, listeners, playbackQueue, ops, teardowns,
                 files, docs>>
  /\ UNCHANGED <<apiVars, cacheVars, viewVars>>

\* The stop script of the k-th stopAudio call of a component returns.
StopDone(k, ok) ==
  /\ k \in 1..Len(stops)
  /\ stops[k].pc = "bridge"
  /\ StopAudioDone(ok)
  /\ stops' = [stops EXCEPT ![k].pc = "done",
                            ![k].ok = IF ok THEN "ok" ELSE "failed",
                            ![k].promise = StopAudioSettle(ok)]
  /\ UNCHANGED <<listeners, playbackQueue, ops, teardowns, lastReq>>
  /\ UNCHANGED <<apiVars, cacheVars, viewVars>>

\* subscribe without the immediate invocation of the listener.
Subscribe_NoInitial(l) ==
  /\ listeners' = listeners \cup {l}
  /\ NoNotify
  /\ UNCHANGED <<sampleId, tempPath, playbackQueue, ops, stops, teardowns, files,
                 docs, lastReq>>
  /\ UNCHANGED <<apiVars, cacheVars, viewVars>>

\* PlaybackStateManager.subscribe: the listener is added and invoked at once
\* with the current sampleId.
Subscribe(l) ==
  /\ listeners' = listeners \cup {l}
  /\ lastNotified' = [lastNotified EXCEPT ![l] = sampleId]
  /\ notified' = FALSE
  /\ UNCHANGED <<sampleId, tempPath, playbackQueue, ops, stops, teardowns, files,
                 docs, lastReq, seenAtNotify>>
  /\ UNCHANGED <<apiVars, cacheVars, viewVars>>

\* The function subscribe returns.
Unsubscribe(l) ==
  /\ l \in listeners
  /\ listeners' = listeners \ {l}
  /\ NoNotify
  /\ UNCHANGED <<sampleId, tempPath, playbackQueue, ops, stops, teardowns, files,
                 docs, lastReq>>
  /\ UNCHANGED <<apiVars, cacheVars, viewVars>>

\* cleanupPlayback -> PlaybackStateManager.destroy: cleanup, then the
\* listener set is cleared. No script is sent to the player.
CleanupPlayback ==
  /\ teardowns < MaxTeardowns
  /\ Cleanup
  /\ listeners' = {}
  /\ teardowns' = teardowns + 1
  /\ lastReq' = "other"
  /\ UNCHANGED <<playbackQueue, ops, stops, docs>>
  /\ UNCHANGED <<apiVars, cacheVars, viewVars>>

\* PlayStopAction.handlePlay, try/catch around `await playAudio(...)`: the
\* catch block, which shows the "Playback Failed" toast with the message of
\* the error, runs when the awaited promise rejects and only then.
HandlePlayToast(promise) == promise = "rejected"

Next ==
  \/ \E s \in Samples : PlayAudio(s)
  \/ \E i \in 1..MaxPlays : OpStart(i)
  \/ \E i \in 1..MaxPlays, ok \in BOOLEAN : OpStopDone(i, ok)
  \/ \E i \in 1..MaxPlays, ok \in BOOLEAN : OpFetchDone(i, ok)
  \/ \E i \in 1..MaxPlays, ok \in BOOLEAN : OpOpenDone(i, ok)
  \/ StopAudio
  \/ \E k \in 1..MaxStops, ok \in BOOLEAN : StopDone(k, ok)
  \/ \E l \in Listeners : Subscribe(l)
  \/ \E l \in Listeners : Unsubscribe(l)
  \/ CleanupPlayback

Spec == Init /\ [][Next]_vars

\* Scheduling: a promise callback whose promise has settled is run, and every
\* bridge call and every fetch returns in the end, with success or failure.
Fairness ==
  /\ WF_vars(\E i \in 1..MaxPlays : OpStart(i))
  /\ WF_vars(\E i \in 1..MaxPlays, ok \in BOOLEAN : OpStopDone(i, ok))
  /\ WF_vars(\E i \in 1..MaxPlays, ok \in BOOLEAN : OpFetchDone(i, ok))
  /\ WF_vars(\E i \in 1..MaxPlays, ok \in BOOLEAN : OpOpenDone(i, ok))
  /\ WF_vars(\E k \in 1..MaxStops, ok \in BOOLEAN : StopDone(k, ok))

\* The requests a component has issued so far.
Issued == Len(ops) + Len(stops) + teardowns

\* The runs of at most MaxLiveRequests requests with no listener subscribed:
\* the request steps of Next under that budget, and every completion step.
LiveNext ==
  \/ \E s \in Samples : Issued < MaxLiveRequests /\ PlayAudio(s)
  \/ \E i \in 1..MaxPlays : OpStart(i)
  \/ \E i \in 1..MaxPlays, ok \in BOOLEAN : OpStopDone(i, ok)
  \/ \E i \in 1..MaxPlays, ok \in BOOLEAN : OpFetchDone(i, ok)
  \/ \E i \in 1..MaxPlays, ok \in BOOLEAN : OpOpenDone(i, ok)
  \/ Issued < MaxLiveRequests /\ StopAudio
  \/ \E k \in 1..MaxStops, ok \in BOOLEAN : StopDone(k, ok)
  \/ Issued < MaxLiveRequests /\ CleanupPlayback

LiveSpec == Init /\ [][LiveNext]_vars /\ Fairness

\* The runs in which no play request is issued once cleanupPlayback has been
\* called, with no listener subscribed: the Command has unmounted and its
\* views issue no new playAudio, while operations issued before go on.
TeardownNext ==
  \/ \E s \in Samples : teardowns = 0 /\ PlayAudio(s)
  \/ \E i \in 1..MaxPlays : OpStart(i)
  \/ \E i \in 1..MaxPlays, ok \in BOOLEAN : OpStopDone(i, ok)
  \/ \E i \in 1..MaxPlays, ok \in BOOLEAN : OpFetchDone(i, ok)
  \/ \E i \in 1..MaxPlays, ok \in BOOLEAN : OpOpenDone(i, ok)
  \/ StopAudio
  \/ \E k \in 1..MaxStops, ok \in BOOLEAN : StopDone(k, ok)
  \/ CleanupPlayback

TeardownSpec == Init /\ [][TeardownNext]_vars

(***************************************************************************)
(* Configuration store (lib/storage), the setup form and the API client    *)
(* (lib/soundraw). Strings are sequences of characters; an optional value  *)
(* is <<>> for undefined and <<v>> otherwise. createdAt is left out: no    *)
(* code reads it.                                                          *)
(***************************************************************************)

\* Bounds: storage calls and API calls a run issues.
MaxMutations == 3
MaxCalls == 2

\* What the user types into the two fields of the setup form.
FormTokens == {<<>>, <<" ">>, <<"a">>, <<" ", "b", " ">>}
FormUrls == {<<>>, <<"u", " ">>, <<"v">>}

\* The endpoints of searchSamples and getAvailableGenres.
Endpoints == {"/beats", "/tags"}

\* What the server or the network answers to one fetch: the fetch rejects
\* (net FALSE), or resolves with a status and a body that is JSON or is not.
Responses ==
  { [net |-> FALSE, status |-> 0, json |-> FALSE],
    [net |-> TRUE, status |-> 200, json |-> TRUE],
    [net |-> TRUE, status |-> 200, json |-> FALSE],
    [net |-> TRUE, status |-> 401, json |-> TRUE],
    [net |-> TRUE, status |-> 500, json |-> TRUE] }

NoResponse == [net |-> FALSE, status |-> 0, json |-> TRUE]

RECURSIVE TrimStart(_)
TrimStart(s) == IF s # <<>> /\ Head(s) = " " THEN TrimStart(Tail(s)) ELSE s

RECURSIVE TrimEnd(_)
TrimEnd(s) ==
  IF s # <<>> /\ s[Len(s)] = " " THEN TrimEnd(SubSeq(s, 1, Len(s) - 1)) ELSE s

\* String.prototype.trim
Trim(s) == TrimEnd(TrimStart(s))

\* JSON.stringify of a StoredState: the members of the object text. A key
\* whose value is undefined is left out, so a state without a config is "{}".
Stringify(state) ==
  IF state.soundrawConfig = <<>>
    THEN <<>>
    ELSE << [key |-> "soundrawConfig",
             token |-> state.soundrawConfig[1].token,
             apiBaseUrl |-> state.soundrawConfig[1].apiBaseUrl] >>

\* JSON.parse of an object text, and the pick of soundrawConfig in readState.
Parse(text) ==
  LET found == SelectSeq(text, LAMBDA m : m.key = "soundrawConfig")
  IN  [soundrawConfig |->
         IF found = <<>>
           THEN <<>>
           ELSE << [token |-> found[1].token, apiBaseUrl |-> found[1].apiBaseUrl] >>]

\* readState: {} when the item is missing.
ReadState(item) == IF ~item.present THEN EmptyState ELSE Parse(item.text)

\* writeState: the item after setItem.
WriteState(next) == [present |-> TRUE, text |-> Stringify(next)]

\* saveSoundrawConfig that writes back the state it read.
SaveState_Keep(state, token, apiBaseUrl) == state

\* saveSoundrawConfig: `{ ...state, soundrawConfig }`
SaveState(state, token, apiBaseUrl) ==
  [state EXCEPT !.soundrawConfig = << [token |-> token, apiBaseUrl |-> apiBaseUrl] >>]

\* deleteSoundrawConfig that writes back the state it read.
DeleteState_Keep(state) == state

\* deleteSoundrawConfig: `{ ...state, soundrawConfig: undefined }`
DeleteState(state) == [state EXCEPT !.soundrawConfig = <<>>]

GetSoundrawConfig(item) == ReadState(item).soundrawConfig

\* getSoundrawToken: `config?.token`
GetSoundrawToken(item) ==
  IF GetSoundrawConfig(item) = <<>> THEN <<>> ELSE <<GetSoundrawConfig(item)[1].token>>

\* getSoundrawApiBaseUrl: `config?.apiBaseUrl`
GetSoundrawApiBaseUrl(item) ==
  IF GetSoundrawConfig(item) = <<>> THEN <<>> ELSE <<GetSoundrawConfig(item)[1].apiBaseUrl>>

\* `!v` for an optional string: undefined or the empty string.
Falsy(v) == v = <<>> \/ v[1] = <<>>

HasValidConfig(item) ==
  /\ ~Falsy(GetSoundrawToken(item))
  /\ ~Falsy(GetSoundrawApiBaseUrl(item))
  /\ Len(Trim(GetSoundrawToken(item)[1])) > 0
  /\ Len(Trim(GetSoundrawApiBaseUrl(item)[1])) > 0

\* makeRequest that checks the token only.
ConfigCheck_TokenOnly(token, apiBaseUrl) ==
  IF Falsy(token) THEN "no_token" ELSE "ok"

\* makeRequest, the two guards before the request is built.
ConfigCheck(token, apiBaseUrl) ==
  IF Falsy(token) THEN "no_token"
  ELSE IF Falsy(apiBaseUrl) THEN "no_url"
  ELSE "ok"

NoError == [kind |-> "none", status |-> {}]

\* fetch: `response.ok`
ResponseOk(r) == r.status \in 200..299

\* makeRequest, the try block: what it throws for a response, kind "none"
\* when it returns the parsed body. status is {} for an error without one.
TryBlock(r) ==
  IF ~r.net THEN [kind |-> "other", status |-> {}]
  ELSE IF ~ResponseOk(r) THEN [kind |-> "api", status |-> {r.status}]
  ELSE IF ~r.json THEN [kind |-> "other", status |-> {}]
  ELSE NoError

\* A catch block that wraps whatever was thrown.
CatchBlock_WrapAll(e) == [kind |-> "network", status |-> {}]

\* makeRequest, the catch block: a SoundrawAPIError is rethrown as it is,
\* anything else becomes a "Network error" without a status.
CatchBlock(e) == IF e.kind = "api" THEN e ELSE [kind |-> "network", status |-> {}]

\* How makeRequest ends for a response.
RequestError(r) == IF TryBlock(r) = NoError THEN NoError ELSE CatchBlock(TryBlock(r))

\* makeRequest up to its second await: getSoundrawToken has read the item.
\* `after` is the storage call that had returned last when the call was made,
\* "busy" while one is in flight; tokenFrom and urlFrom are the configuration
\* records the two reads of the call found in the store. `submit` is empty
\* but for the call onSubmit makes after its save.
NewCall(e, item, after) ==
  [endpoint |-> e, pc |-> "readUrl", token |-> GetSoundrawToken(item), apiBaseUrl |-> <<>>,
   requests |-> 0, resp |-> NoResponse, err |-> NoError, value |-> FALSE, after |-> after,
   tokenFrom |-> GetSoundrawConfig(item), urlFrom |-> <<>>, submit |-> <<>>]

\* searchSamples or getAvailableGenres called by a view.
MakeRequest(e) ==
  /\ Len(calls) + (IF mut.kind = "save" THEN 1 ELSE 0) < MaxCalls
  /\ calls' = Append(calls, NewCall(e, raw, IF mut.kind = "none" THEN lastDone.kind ELSE "busy"))
  /\ UNCHANGED <<raw, mut, lastDone, mutations>>
  /\ UNCHANGED <<audioVars, cacheVars, viewVars>>

\* getSoundrawApiBaseUrl returns: the two guards run, and the request is sent
\* when both pass.
MakeRequestCheck(c) ==
  /\ c \in 1..Len(calls)
  /\ calls[c].pc = "readUrl"
  /\ LET url == GetSoundrawApiBaseUrl(raw)
         chk == ConfigCheck(calls[c].token, url)
     IN  calls' = [calls EXCEPT ![c] =
           IF chk = "ok"
             THEN [@ EXCEPT !.apiBaseUrl = url, !.urlFrom = GetSoundrawConfig(raw),
                            !.pc = "fetching", !.requests = @ + 1]
             ELSE [@ EXCEPT !.apiBaseUrl = url, !.urlFrom = GetSoundrawConfig(raw),
                            !.pc = "done", !.err = [kind |-> chk, status |-> {}]]]
  /\ UNCHANGED <<raw, mut, lastDone, mutations>>
  /\ UNCHANGED <<audioVars, cacheVars, viewVars>>

\* The fetch of call c settles with response r, and makeRequest returns the
\* body or throws.
MakeRequestFetched(c, r) ==
  /\ c \in 1..Len(calls)
  /\ calls[c].pc = "fetching"
  /\ calls' = [calls EXCEPT ![c].pc = "done", ![c].resp = r,
                            ![c].err = RequestError(r),
                            ![c].value = (RequestError(r) = NoError)]
  /\ UNCHANGED <<raw, mut, lastDone, mutations>>
  /\ UNCHANGED <<audioVars, cacheVars, viewVars>>

\* Setup form, onSubmit: an empty or blank field ends the handler with a
\* toast; otherwise saveSoundrawConfig is called with the trimmed values and
\* reads the state.
SetupSubmit(t, u) ==
  /\ mut.kind = "none"
  /\ mutations < MaxMutations
  /\ Len(calls) < MaxCalls
  /\ IF Len(Trim(t)) = 0 \/ Len(Trim(u)) = 0
       THEN UNCHANGED <<mut, mutations>>
       ELSE /\ mut' = [kind |-> "save", token |-> Trim(t), apiBaseUrl |-> Trim(u),
                       state |-> ReadState(raw)]
            /\ mutations' = mutations + 1
  /\ UNCHANGED <<raw, lastDone, calls>>
  /\ UNCHANGED <<audioVars, cacheVars, viewVars>>

\* saveSoundrawConfig writes and returns; onSubmit goes on to validate the
\* configuration with getAvailableGenres. The call keeps what was submitted,
\* the configuration the save had read and the count of storage calls so far.
SaveSoundrawConfigDone ==
  /\ mut.kind = "save"
  /\ raw' = WriteState(SaveState(mut.state, mut.token, mut.apiBaseUrl))
  /\ lastDone' = [kind |-> "save", token |-> mut.token, apiBaseUrl |-> mut.apiBaseUrl]
  /\ mut' = NoMutation
  /\ calls' = Append(calls,
       [NewCall("/tags", raw', "save") EXCEPT
          !.submit = << [token |-> mut.token, apiBaseUrl |-> mut.apiBaseUrl,
                         before |-> mut.state.soundrawConfig, seq |-> mutations] >>])
  /\ UNCHANGED mutations
  /\ UNCHANGED <<audioVars, cacheVars, viewVars>>

\* deleteSoundrawConfig up to its await: it reads the state.
DeleteSoundrawConfig ==
  /\ mut.kind = "none"
  /\ mutations < MaxMutations
  /\ mut' = [NoMutation EXCEPT !.kind = "delete", !.state = ReadState(raw)]
  /\ mutations' = mutations + 1
  /\ UNCHANGED <<raw, lastDone, calls>>
  /\ UNCHANGED <<audioVars, cacheVars, viewVars>>

\* deleteSoundrawConfig writes and returns.
DeleteSoundrawConfigDone ==
  /\ mut.kind = "delete"
  /\ raw' = WriteState(DeleteState(mut.state))
  /\ lastDone' = [kind |-> "delete", token |-> <<>>, apiBaseUrl |-> <<>>]
  /\ mut' = NoMutation
  /\ UNCHANGED <<mutations, calls>>
  /\ UNCHANGED <<audioVars, cacheVars, viewVars>>

ApiNext ==
  \/ \E t \in FormTokens, u \in FormUrls : SetupSubmit(t, u)
  \/ SaveSoundrawConfigDone
  \/ DeleteSoundrawConfig
  \/ DeleteSoundrawConfigDone
  \/ \E e \in Endpoints : MakeRequest(e)
  \/ \E c \in 1..MaxCalls : MakeRequestCheck(c)
  \/ \E c \in 1..MaxCalls, r \in Responses : MakeRequestFetched(c, r)

ApiSpec == Init /\ [][ApiNext]_vars

(***************************************************************************)
(* File cache in /tmp: getOrDownloadFile (lib/file) as the playback path   *)
(* and the search view call it, prepareFiles of the search view, and the   *)
(* unlink of the playback cleanup. File content is a sequence of bytes.    *)
(***************************************************************************)

\* Bounds: getOrDownloadFile calls and prepareFiles runs.
MaxFetchCalls == 3
MaxPrepares == 2

\* Values of the samples prop: the results of a search, in order.
SampleLists == {<<>>, <<"A">>, <<"B">>, <<"A", "B">>}

\* The ids of a sample list.
Ids(list) == {list[k] : k \in 1..Len(list)}

\* Bodies the server may answer with for a sample URL.
Bodies == {<<"x">>, <<"y">>}

\* How a download ends: the request fails and nothing is written, the write
\* is cut short and leaves a zero-length file where no file with content was,
\* or the body is persisted.
Outcomes ==
  { [kind |-> "fail", body |-> <<>>], [kind |-> "partial", body |-> <<>>] }
    \cup { [kind |-> "ok", body |-> b] : b \in Bodies }

\* fs.existsSync(path) && fs.statSync(path).size > 0
FileReady(f) == f.exists /\ Len(f.bytes) > 0

\* A lookup that never finds the file.
CacheHit_Never(f) == FALSE

\* getOrDownloadFile, step 1: a file of nonzero size at the path is a hit.
CacheHit(f) == f.exists /\ Len(f.bytes) > 0

\* getOrDownloadFile(url, "/tmp", name) up to its await: a hit returns the
\* bytes on disk without a network call, a miss issues the fetch. sawWriter
\* is the download that wrote the file found at the path, 0 if there is none.
FetchCall(s, caller, run) ==
  IF CacheHit(disk[s])
    THEN [sample |-> s, caller |-> caller, run |-> run, pc |-> "done", net |-> 0,
          result |-> "ok", bytes |-> disk[s].bytes, sawWriter |-> writer[s]]
    ELSE [sample |-> s, caller |-> caller, run |-> run, pc |-> "fetching", net |-> 1,
          result |-> "none", bytes |-> <<>>, sawWriter |-> writer[s]]

\* getOrDownloadFile, steps 2 and 3: the file at the path once a download
\* that found file f there has ended with outcome o.
Persisted(f, o) ==
  IF o.kind = "fail" \/ (o.kind = "partial" /\ f.exists /\ Len(f.bytes) > 0)
    THEN f
    ELSE [exists |-> TRUE, bytes |-> o.body]

\* Samples of the list whose file prepareFiles does not find ready, in order.
Misses(list) == SelectSeq(list, LAMBDA s : ~FileReady(disk[s]))

\* prepareFiles without the check of the cancelled flag.
Settle_NoCancel(run) ==
  IF \E s \in Samples : run.task[s] = "waiting" THEN run
  ELSE [run EXCEPT !.pc = "published"]

\* prepareFiles, after Promise.allSettled: nothing is published when the
\* effect was cancelled, otherwise the paths of the tasks that returned one.
Settle(run) ==
  IF \E s \in Samples : run.task[s] = "waiting" THEN run
  ELSE IF run.cancelled THEN [run EXCEPT !.pc = "dropped"]
  ELSE [run EXCEPT !.pc = "published"]

\* setFilePaths: the samples a path is published for.
Publish(run, old) ==
  IF Settle(run).pc = "published" THEN {s \in Samples : run.task[s] = "path"} ELSE old

\* The effect of the search view runs for a value of the samples prop: the
\* cleanup of the previous run sets its cancelled flag, and prepareFiles
\* starts one task per sample, which returns the expected path when the file
\* is there with content and calls getOrDownloadFile otherwise. An empty
\* list publishes the empty map at once.
PrepareFiles(list) ==
  /\ Len(runs) < MaxPrepares
  /\ Len(reqs) + Len(Misses(list)) <= MaxFetchCalls
  /\ LET run == [pc |-> "running", cancelled |-> FALSE, samples |-> list,
                 task |-> [s \in Samples |->
                             IF s \notin Ids(list) THEN "none"
                             ELSE IF FileReady(disk[s]) THEN "path" ELSE "waiting"]]
         old == [i \in 1..Len(runs) |-> [runs[i] EXCEPT !.cancelled = TRUE]]
     IN  /\ runs' = Append(old, Settle(run))
         /\ filePaths' = Publish(run, filePaths)
  /\ reqs' = reqs \o [k \in 1..Len(Misses(list)) |->
                        FetchCall(Misses(list)[k], "prepare", Len(runs) + 1)]
  /\ UNCHANGED <<disk, writer, tempOf>>
  /\ UNCHANGED <<audioVars, apiVars, viewVars>>

\* The search view unmounts: the cleanup of the effect sets cancelled.
PrepareCancel ==
  /\ runs # <<>>
  /\ runs[Len(runs)].pc = "running"
  /\ ~runs[Len(runs)].cancelled
  /\ runs' = [runs EXCEPT ![Len(runs)].cancelled = TRUE]
  /\ UNCHANGED <<disk, writer, reqs, filePaths, tempOf>>
  /\ UNCHANGED <<audioVars, apiVars, viewVars>>

\* playAudio reaches getOrDownloadFile: the session is Idle by then, and a
\* hit makes the file the temp file of the session at once.
PlayFetch(s) ==
  /\ Len(reqs) < MaxFetchCalls
  /\ tempOf = Null
  /\ \A r \in 1..Len(reqs) : reqs[r].caller = "play" => reqs[r].pc = "done"
  /\ reqs' = Append(reqs, FetchCall(s, "play", 0))
  /\ tempOf' = IF CacheHit(disk[s]) THEN s ELSE Null
  /\ UNCHANGED <<disk, writer, runs, filePaths>>
  /\ UNCHANGED <<audioVars, apiVars, viewVars>>

\* The fetch of call r ends with outcome o. The file is written or not,
\* getOrDownloadFile returns or throws, and its caller goes on: playAudio
\* sets the playing state, a prepareFiles task verifies the file and returns
\* its path or null, and the run publishes once its last task has returned.
FetchDone(r, o) ==
  /\ r \in 1..Len(reqs)
  /\ reqs[r].pc = "fetching"
  /\ LET s == reqs[r].sample
         file == Persisted(disk[s], o)
         i == reqs[r].run
         run == IF reqs[r].caller = "prepare"
                  THEN [runs[i] EXCEPT !.task[s] =
                          IF o.kind = "ok" /\ FileReady(file) THEN "path" ELSE "null"]
                  ELSE [pc |-> "none"]
     IN  /\ disk' = [disk EXCEPT ![s] = file]
         /\ writer' = [writer EXCEPT ![s] =
                         IF o.kind = "ok" THEN r ELSE IF file = disk[s] THEN @ ELSE 0]
         /\ reqs' = [reqs EXCEPT ![r].pc = "done",
                                 ![r].result = IF o.kind = "ok" THEN "ok" ELSE "error",
                                 ![r].bytes = o.body]
         /\ IF reqs[r].caller = "prepare"
              THEN /\ runs' = [runs EXCEPT ![i] = Settle(run)]
                   /\ filePaths' = Publish(run, filePaths)
                   /\ UNCHANGED tempOf
              ELSE /\ tempOf' = IF o.kind = "ok" THEN s ELSE Null
                   /\ UNCHANGED <<runs, filePaths>>
  /\ UNCHANGED <<audioVars, apiVars, viewVars>>

\* PlaybackStateManager.cleanup, reached from stopAudio, a failed open script
\* or cleanupPlayback: the temp file of the session is unlinked.
Unlink(s) ==
  /\ tempOf = s
  /\ \A r \in 1..Len(reqs) : reqs[r].caller = "play" => reqs[r].pc = "done"
  /\ disk' = [disk EXCEPT ![s] = NoFile]
  /\ writer' = [writer EXCEPT ![s] = 0]
  /\ tempOf' = Null
  /\ UNCHANGED <<reqs, runs, filePaths>>
  /\ UNCHANGED <<audioVars, apiVars, viewVars>>

CacheNext ==
  \/ \E list \in SampleLists : PrepareFiles(list)
  \/ PrepareCancel
  \/ \E s \in Samples : PlayFetch(s)
  \/ \E r \in 1..MaxFetchCalls, o \in Outcomes : FetchDone(r, o)
  \/ \E s \in Samples : Unlink(s)

CacheSpec == Init /\ [][CacheNext]_vars

(***************************************************************************)
(* Auto-play of the search view: handleSelectionChange of SamplesList,     *)
(* with the playback coordinator it calls.                                 *)
(***************************************************************************)

\* Bound: selection events of a run.
MaxSelections == 3

\* Ids the list hands to onSelectionChange: an item of the list, or none.
SelectionIds == Samples \cup {Null, ""}

\* `!selectedId`
NoSelection(id) == id = Null \/ id = ""

\* A handler that takes every event with an id as a change.
IsNewSelection_Any(id) == ~NoSelection(id)

\* handleSelectionChange, the guard: FALSE is the early return.
IsNewSelection(id) == ~NoSelection(id) /\ id # selectedSampleIdRef

\* playAudio called by the handler of a selection: the operation is chained
\* on the tail of the queue.
EnqueuedBySelection(id) ==
  /\ ops' = Append(ops, [sample |-> id, pc |-> "queued", result |-> "none",
                         promise |-> "pending", waitsOn |-> playbackQueue])
  /\ playbackQueue' = EnqueueTail(Len(ops) + 1)

\* onSelectionChange(id): the early return, or the id is recorded and
\* stopAudio is called. With nothing playing stopAudio returns at once and
\* the handler goes on to playAudio before any other event is handled;
\* otherwise the stop script is sent and the handler waits for it.
SelectionChange(id) ==
  /\ Len(selections) < MaxSelections
  /\ IF ~IsNewSelection(id)
       THEN /\ selections' = Append(selections, [id |-> id, pc |-> "ignored", stop |-> 0, op |-> 0])
            /\ UNCHANGED <<selectedSampleIdRef, stops, ops, playbackQueue, lastReq>>
       ELSE /\ Len(stops) < MaxStops
            /\ Len(ops) < MaxPlays
            /\ selectedSampleIdRef' = id
            /\ IF IsPlayingNow(sampleId)
                 THEN /\ stops' = Append(stops, [sid |-> sampleId, pc |-> "bridge", ok |-> "none",
                                                 promise |-> "pending"])
                      /\ selections' = Append(selections, [id |-> id, pc |-> "stopping",
                                                           stop |-> Len(stops) + 1, op |-> 0])
                      /\ lastReq' = "stop"
                      /\ UNCHANGED <<ops, playbackQueue>>
                 ELSE /\ stops' = Append(stops, [sid |-> sampleId, pc |-> "done", ok |-> "none",
                                                 promise |-> "fulfilled"])
                      /\ selections' = Append(selections, [id |-> id, pc |-> "played",
                                                           stop |-> Len(stops) + 1,
                                                           op |-> Len(ops) + 1])
                      /\ EnqueuedBySelection(id)
                      /\ lastReq' = "other"
  /\ NoNotify
  /\ UNCHANGED <<sampleId, tempPath, listeners, teardowns, files, docs>>
  /\ UNCHANGED <<apiVars, cacheVars>>

\* The stop script sent by the handler of selection h returns: stopAudio
\* cleans up and returns, and the handler calls playAudio for its sample.
SelectionStopDone(h, ok) ==
  /\ h \in 1..Len(selections)
  /\ selections[h].pc = "stopping"
  /\ Len(ops) < MaxPlays
  /\ StopAudioDone(ok)
  /\ stops' = [stops EXCEPT ![selections[h].stop].pc = "done",
                            ![selections[h].stop].ok = IF ok THEN "ok" ELSE "failed",
                            ![selections[h].stop].promise = StopAudioSettle(ok)]
  /\ EnqueuedBySelection(selections[h].id)
  /\ selections' = [selections EXCEPT ![h].pc = "played", ![h].op = Len(ops) + 1]
  /\ lastReq' = "other"
  /\ UNCHANGED <<selectedSampleIdRef, listeners, teardowns>>
  /\ UNCHANGED <<apiVars, cacheVars>>

SelectNext ==
  \/ \E id \in SelectionIds : SelectionChange(id)
  \/ \E h \in 1..MaxSelections, ok \in BOOLEAN : SelectionStopDone(h, ok)
  \/ \E i \in 1..MaxPlays : OpStart(i)
  \/ \E i \in 1..MaxPlays, ok \in BOOLEAN : OpStopDone(i, ok)
  \/ \E i \in 1..MaxPlays, ok \in BOOLEAN : OpFetchDone(i, ok)
  \/ \E i \in 1..MaxPlays, ok \in BOOLEAN : OpOpenDone(i, ok)

SelectSpec == Init /\ [][SelectNext]_vars

(***************************************************************************)
(* Properties                                                              *)
(***************************************************************************)

\* C1: play requests are serialized first-in-first-out: no step of a later
\* play operation (stop script, fetch, state update, open script) happens
\* before every earlier play operation has settled, so at most one play
\* operation executes at a time and their bridge calls never interleave.
C1_PlaysSerialized ==
  /\ \A i, j \in 1..Len(ops) : (i < j /\ ops[j].pc # "queued") => ops[i].pc = "settled"
  /\ Cardinality(Running) <= 1

\* play(B) was issued while play(A) executes, and is held back.
C1_Witness ==
  /\ Len(ops) >= 2
  /\ ops[1].pc = "opening"
  /\ ops[2].pc = "queued"
  /\ ops[1].sample # ops[2].sample

\* C2 (as claimed): a stopAudio call made by a component while a queued play
\* operation is executing does not send its stop script in that call; it
\* waits for the operation.
C2_StopsQueued ==
  [][(Len(stops') = Len(stops) + 1 /\ Running # {})
     => stops'[Len(stops')].pc # "bridge"]_vars

\* C3 (as claimed): no open-and-play script is sent while a document of an
\* earlier play is still open in the player (documents are only opened by
\* play operations, one at a time, so a document that is open while an
\* operation awaits its open script was open when the script was sent), and
\* whenever the player has a document open the session names that sample.
C3_SingleActivePlayback ==
  /\ (\E i \in 1..Len(ops) : ops[i].pc = "opening") => docs = <<>>
  /\ docs # <<>> => (Len(docs) = 1 /\ sampleId = Head(docs))

\* C4: wherever an operation or a subscriber can observe the session,
\* tempPath is set if and only if sampleId is set.
C4_TempPathIffSampleId ==
  /\ tempPath # Null <=> sampleId # Null
  /\ seenAtNotify[2] # Null <=> seenAtNotify[1] # Null

\* A play operation awaits the player with the session set, after listeners
\* were notified of it.
C4_Witness ==
  \E i \in 1..Len(ops) :
    /\ ops[i].pc = "opening"
    /\ sampleId = ops[i].sample
    /\ tempPath = PathOf(ops[i].sample)
    /\ seenAtNotify = <<sampleId, tempPath>>

C6_PlayErrorPropagates ==
  [][\A i \in 1..Len(ops) :
       (ops[i].pc # "settled" /\ ops'[i].pc = "settled" /\ ops'[i].result = "failed")
       => (sampleId' = Null /\ tempPath' = Null /\ ops'[i].promise = "rejected")]_vars

\* C7: a failed operation does not poison the queue: every operation is
\* chained behind its predecessor, its callback becomes runnable as soon as
\* the predecessor has settled, however it ended, and no operation settles
\* without having been executed.
C7_QueueNotPoisoned ==
  \A j \in 1..Len(ops) :
    /\ ops[j].waitsOn = j - 1
    /\ (j > 1 /\ ops[j - 1].pc = "settled") => ChainState(j) = "fulfilled"
    /\ ops[j].pc = "settled" => ops[j].result \in {"ok", "failed"}

\* The operation enqueued behind a failed one has run and succeeded.
C7_Witness ==
  /\ Len(ops) >= 2
  /\ ops[1].result = "failed"
  /\ ops[2].result = "ok"

C9_StopWhenIdleNoOp ==
  [][(Len(stops') = Len(stops) + 1 /\ sampleId = Null)
     => ( /\ stops'[Len(stops')].pc = "done"
          /\ stops'[Len(stops')].promise = "fulfilled"
          /\ ~notified'
          /\ UNCHANGED <<sampleId, tempPath, files, docs, ops, lastNotified, listeners>> )]_vars

\* A stop was requested in Idle and has returned.
C9_Witness ==
  \E k \in 1..Len(stops) :
    /\ stops[k].sid = Null
    /\ stops[k].pc = "done"
    /\ stops[k].ok = "none"

\* C10 (as claimed): of two stopAudio calls in a row, the first made while a
\* sample plays, the second made with no play operation pending, neither
\* throws and the second sends no stop script.
C10_SecondStopSilent ==
  [][( /\ Len(stops') = Len(stops) + 1
       /\ Len(stops) >= 1
       /\ lastReq = "stop"
       /\ stops[Len(stops)].sid # Null
       /\ Pending = {} )
     => ( /\ stops'[Len(stops')].pc # "bridge"
          /\ \A k \in 1..Len(stops') : stops'[k].promise # "rejected" )]_vars

\* C11 (as claimed): cleanupPlayback called while a sample plays sends a
\* stop script to the player (one more stop script is in flight after the
\* call), deletes the temp file, resets the session to Idle and leaves no
\* listener.
C11_TeardownStopsPlayback ==
  [][(teardowns' = teardowns + 1 /\ sampleId # Null)
     => ( /\ Cardinality({k \in 1..Len(stops') : stops'[k].pc = "bridge"})
               + Cardinality({i \in 1..Len(ops') : ops'[i].pc = "stop_bridge"})
             > Cardinality({k \in 1..Len(stops) : stops[k].pc = "bridge"})
               + Cardinality({i \in 1..Len(ops) : ops[i].pc = "stop_bridge"})
          /\ sampleId' = Null
          /\ tempPath' = Null
          /\ tempPath # Null => tempPath \notin files'
          /\ listeners' = {} )]_vars

\* C12: every change of sampleId notifies, in the same step, every listener
\* subscribed at that moment with the new value, and a listener that is not
\* subscribed is not invoked.
C12_ChangeNotifiesListeners ==
  [][ /\ sampleId' # sampleId
          => (notified' /\ \A l \in listeners : lastNotified'[l] = sampleId')
      /\ \A l \in Listeners :
           (l \notin listeners /\ l \notin listeners') => lastNotified'[l] = lastNotified[l] ]_vars

\* A subscribed listener has just been told the sample that started, while
\* the play operation awaits the player.
C12_Witness ==
  /\ "l1" \in listeners
  /\ notified
  /\ sampleId # Null
  /\ lastNotified["l1"] = sampleId
  /\ \E i \in 1..Len(ops) : ops[i].pc = "opening"

\* C13: a listener that subscribes is invoked inside the subscribe call with
\* the current sampleId, whatever the session state.
C13_SubscribeNotifiesAtOnce ==
  [][\A l \in Listeners :
       (l \notin listeners /\ l \in listeners')
       => (lastNotified'[l] = sampleId /\ sampleId' = sampleId)]_vars

\* A listener subscribed after the sample was set (no notifyListeners call
\* in the last step) and holds the current sample.
C13_Witness ==
  /\ "l1" \in listeners
  /\ ~notified
  /\ sampleId # Null
  /\ lastNotified["l1"] = sampleId
  /\ \A i \in 1..Len(ops) : ops[i].pc = "settled"

\* C15 (as claimed): the session holds S, and listeners are told S, only
\* once the open-and-play call for S has completed.
C15_PlayingAfterOpenDone ==
  /\ sampleId # Null
       => \E i \in 1..Len(ops) : ops[i].sample = sampleId /\ ops[i].result = "ok"
  /\ \A l \in listeners :
       lastNotified[l] \notin {Null, "never"}
       => \E i \in 1..Len(ops) : ops[i].sample = lastNotified[l] /\ ops[i].result = "ok"

\* C15 (amended): the session holds S, and listeners are told S, only once
\* the file of S is resolved and the open-and-play script for S has been
\* handed to the bridge: an operation for S awaits that call or has
\* completed it successfully.
C15_PlayingAfterOpenSent ==
  /\ sampleId # Null
       => \E i \in 1..Len(ops) :
            ops[i].sample = sampleId /\ (ops[i].pc = "opening" \/ ops[i].result = "ok")
  /\ \A l \in listeners :
       lastNotified[l] \notin {Null, "never"}
       => \E i \in 1..Len(ops) :
            ops[i].sample = lastNotified[l] /\ (ops[i].pc = "opening" \/ ops[i].result = "ok")

\* A listener holds S while the open-and-play call for S is still in flight
\* and no earlier play of S has succeeded.
C15_Witness ==
  /\ "l1" \in listeners
  /\ lastNotified["l1"] = sampleId
  /\ \E i \in 1..Len(ops) : ops[i].pc = "opening" /\ ops[i].sample = sampleId
  /\ \A i \in 1..Len(ops) : ops[i].result # "ok"

\* C14: provided every fetch and every bridge call returns, every play
\* request and every stop request completes, and whenever no operation is
\* pending the session is Idle (neither field set) or Playing (both set).
C14_NeverStuck ==
  /\ \A i \in 1..MaxPlays : [](i <= Len(ops) => <>(i <= Len(ops) /\ ops[i].pc = "settled"))
  /\ \A k \in 1..MaxStops : [](k <= Len(stops) => <>(k <= Len(stops) /\ stops[k].pc = "done"))
  /\ []( (Pending = {} /\ \A k \in 1..Len(stops) : stops[k].pc = "done")
         => \/ (sampleId = Null /\ tempPath = Null)
            \/ (sampleId # Null /\ tempPath # Null) )

\* Every request has completed, one of them a play whose fetch or open
\* failed, and the session is Idle.
C14_Witness ==
  /\ Len(ops) = MaxPlays
  /\ Len(stops) >= 1
  /\ Pending = {}
  /\ \A k \in 1..Len(stops) : stops[k].pc = "done"
  /\ \E i \in 1..Len(ops) : ops[i].result = "failed"
  /\ sampleId = Null
  /\ tempPath = Null

\* C16: a call that read no token or no base URL from the store ends in a
\* configuration error and has issued no network request.
C16_NoConfigNoRequest ==
  \A c \in 1..Len(calls) :
    (calls[c].pc # "readUrl" /\ (Falsy(calls[c].token) \/ Falsy(calls[c].apiBaseUrl)))
      => /\ calls[c].pc = "done"
         /\ calls[c].err.kind \in {"no_token", "no_url"}
         /\ calls[c].requests = 0
         /\ ~calls[c].value

\* A call failed for the missing token and another one, which had read a
\* token, for the missing base URL.
C16_Witness ==
  /\ \E c \in 1..Len(calls) : calls[c].pc = "done" /\ calls[c].err.kind = "no_token"
  /\ \E c \in 1..Len(calls) :
       calls[c].pc = "done" /\ calls[c].err.kind = "no_url" /\ ~Falsy(calls[c].token)

\* C17: a call that passes the configuration guards issues exactly one
\* network request and no call ever issues a second one; a non-success
\* status ends the call with an error carrying that status, a rejected fetch
\* with an error carrying none, and neither returns a value.
C17_OneRequestNoRetry ==
  \A c \in 1..Len(calls) :
    /\ calls[c].requests <= 1
    /\ calls[c].pc = "fetching" => calls[c].requests = 1
    /\ (calls[c].pc = "done" /\ calls[c].err.kind \notin {"no_token", "no_url"})
         => calls[c].requests = 1
    /\ (calls[c].pc = "done" /\ calls[c].requests = 1 /\ calls[c].resp.net
          /\ ~ResponseOk(calls[c].resp))
         => /\ calls[c].err.kind = "api"
            /\ calls[c].err.status = {calls[c].resp.status}
            /\ ~calls[c].value
    /\ (calls[c].pc = "done" /\ calls[c].requests = 1 /\ ~calls[c].resp.net)
         => /\ calls[c].err.kind = "network"
            /\ calls[c].err.status = {}
            /\ ~calls[c].value

\* One call ended on a non-success status and another on a rejected fetch.
C17_Witness ==
  /\ \E c \in 1..Len(calls) :
       calls[c].pc = "done" /\ calls[c].requests = 1 /\ calls[c].resp.net
         /\ calls[c].resp.status = 500
  /\ \E c \in 1..Len(calls) :
       calls[c].pc = "done" /\ calls[c].requests = 1 /\ ~calls[c].resp.net

\* C18: with no storage call in flight, getSoundrawConfig returns the token
\* and base URL of the last save if a save returned last and no config
\* otherwise; after a delete hasValidConfig is false, and an API call made
\* then fails for the missing token without a request.
C18_ConfigFollowsLastCall ==
  /\ mut.kind = "none" =>
       /\ lastDone.kind = "save" =>
            /\ GetSoundrawConfig(raw) =
                 << [token |-> lastDone.token, apiBaseUrl |-> lastDone.apiBaseUrl] >>
            /\ HasValidConfig(raw)
       /\ lastDone.kind # "save" =>
            /\ GetSoundrawConfig(raw) = <<>>
            /\ ~HasValidConfig(raw)
  /\ \A c \in 1..Len(calls) :
       calls[c].after = "delete" =>
         /\ calls[c].pc # "fetching"
         /\ calls[c].requests = 0
         /\ calls[c].pc = "done" => calls[c].err.kind = "no_token"

\* A save, then a delete, then an API call that has failed.
C18_Witness ==
  /\ mut.kind = "none"
  /\ mutations >= 2
  /\ lastDone.kind = "delete"
  /\ raw.present
  /\ \E c \in 1..Len(calls) : calls[c].after = "delete" /\ calls[c].pc = "done"

\* C19: a request made while the file a successful download wrote is still
\* at the path issues no network call and returns the bytes of that download.
C19_CacheRoundTrip ==
  \A r \in 1..Len(reqs) :
    reqs[r].sawWriter # 0 =>
      /\ reqs[reqs[r].sawWriter].sample = reqs[r].sample
      /\ reqs[reqs[r].sawWriter].net = 1
      /\ reqs[r].net = 0
      /\ reqs[r].pc = "done"
      /\ reqs[r].result = "ok"
      /\ reqs[r].bytes = reqs[reqs[r].sawWriter].bytes

\* The playback path was served from the file an earlier download wrote, and
\* the file of a successful download has been deleted.
C19_Witness ==
  /\ \E r \in 1..Len(reqs) : reqs[r].sawWriter # 0 /\ reqs[r].caller = "play"
  /\ \E r \in 1..Len(reqs) : reqs[r].pc = "done" /\ reqs[r].result = "ok"
                               /\ reqs[r].net = 1 /\ ~disk[reqs[r].sample].exists

\* C20: whenever a prepareFiles run publishes its paths, the file at every
\* published path exists and has nonzero size.
C20_PublishedFileHasContent ==
  [][\A i \in 1..Len(runs') :
       (runs'[i].pc = "published" /\ (i > Len(runs) \/ runs[i].pc # "published"))
         => \A s \in filePaths' : FileReady(disk'[s])]_vars

\* C21 (as claimed): for every play operation that has failed in its fetch or
\* its open script, the handler that awaited it shows the "Playback Failed"
\* toast.
C21_FailedPlayShowsToast ==
  \A i \in 1..Len(ops) :
    (ops[i].pc = "settled" /\ ops[i].result = "failed") => HandlePlayToast(ops[i].promise)

\* The id of the last selection among the first k that its handler took as
\* a change, Null if there is none.
RECURSIVE LastHandled(_)
LastHandled(k) ==
  IF k = 0 THEN Null
  ELSE IF selections[k].pc # "ignored" THEN selections[k].id
  ELSE LastHandled(k - 1)

\* C22: a selection event is ignored, with no stop and no play request, if
\* and only if its id is empty or equal to the last handled id; a handled
\* event has issued one stop and then at most one play, for its own sample,
\* and the ref holds the id of the last handled event.
C22_OncePerSelectionChange ==
  /\ selectedSampleIdRef = LastHandled(Len(selections))
  /\ \A h \in 1..Len(selections) :
       /\ selections[h].pc = "ignored"
            <=> (NoSelection(selections[h].id) \/ selections[h].id = LastHandled(h - 1))
       /\ selections[h].pc = "ignored" => (selections[h].stop = 0 /\ selections[h].op = 0)
       /\ selections[h].pc = "stopping" =>
            (selections[h].stop \in 1..Len(stops) /\ selections[h].op = 0)
       /\ selections[h].pc = "played" =>
            /\ selections[h].stop \in 1..Len(stops)
            /\ stops[selections[h].stop].pc = "done"
            /\ selections[h].op \in 1..Len(ops)
            /\ ops[selections[h].op].sample = selections[h].id
  /\ Len(ops) = Cardinality({h \in 1..Len(selections) : selections[h].pc = "played"})
  /\ Len(stops) = Cardinality({h \in 1..Len(selections) : selections[h].pc # "ignored"})

\* The same item was selected twice in a row while the play of the first
\* event was still pending, and the second event was ignored.
C22_Witness ==
  /\ Len(selections) >= 2
  /\ selections[1].pc = "played"
  /\ selections[2].pc = "ignored"
  /\ selections[2].id = selections[1].id
  /\ ops[selections[1].op].pc # "settled"
  /\ Len(ops) = 1

\* C23: only the current run publishes, and only while it is not cancelled:
\* the path map changes only when a run publishes, that run is the last one
\* started and its cancelled flag is not set, and the map it publishes holds
\* ids of its own sample list only.
C23_NoStalePublication ==
  [][/\ \A i \in 1..Len(runs') :
          (runs'[i].pc = "published" /\ (i > Len(runs) \/ runs[i].pc # "published"))
            => /\ i = Len(runs')
               /\ i <= Len(runs) => ~runs[i].cancelled
               /\ filePaths' \subseteq Ids(runs'[i].samples)
     /\ filePaths' # filePaths =>
          \E i \in 1..Len(runs') :
            runs'[i].pc = "published" /\ (i > Len(runs) \/ runs[i].pc # "published")]_vars

\* The sample list changed while a download of the first list was in flight:
\* the first run has ended with a path it did not publish, for a sample that
\* is not in the second list, and the second run has published.
C23_Witness ==
  /\ Len(runs) = 2
  /\ runs[1].pc = "dropped"
  /\ runs[2].pc = "published"
  /\ \E s \in Samples : runs[1].task[s] = "path" /\ s \notin Ids(runs[2].samples)
  /\ filePaths = Ids(runs[2].samples)
  /\ filePaths # {}

\* C24 (as claimed): once cleanupPlayback has been called and no play request
\* follows it, the session is Idle with no temp path and no temp file of the
\* coordinator is on disk.
C24_TeardownIsFinal ==
  teardowns >= 1 => (sampleId = Null /\ tempPath = Null /\ files = {})

\* C25 (as claimed): the token and the base URL a request is sent with are
\* those of one configuration record the call read from the store.
C25_TokenAndUrlOfOneRecord ==
  \A c \in 1..Len(calls) :
    calls[c].requests = 1 =>
      \E rec \in {calls[c].tokenFrom, calls[c].urlFrom} :
        /\ rec # <<>>
        /\ rec[1].token = calls[c].token[1]
        /\ rec[1].apiBaseUrl = calls[c].apiBaseUrl[1]

\* The configuration a submission entered.
Entered(c) ==
  << [token |-> calls[c].submit[1].token, apiBaseUrl |-> calls[c].submit[1].apiBaseUrl] >>

\* C26: the validation call of a submission starts from the stored new
\* configuration, and once it has failed, with no storage call since, the
\* stored configuration is still the one that was entered.
C26_SavedBeforeValidated ==
  \A c \in 1..Len(calls) :
    calls[c].submit # <<>> =>
      /\ calls[c].tokenFrom = Entered(c)
      /\ ( /\ calls[c].pc = "done"
           /\ calls[c].err.kind # "none"
           /\ mut.kind = "none"
           /\ mutations = calls[c].submit[1].seq )
         => GetSoundrawConfig(raw) = Entered(c)

\* A submission over another stored configuration whose validation has failed.
C26_Witness ==
  \E c \in 1..Len(calls) :
    /\ calls[c].submit # <<>>
    /\ calls[c].submit[1].before # <<>>
    /\ calls[c].submit[1].before # Entered(c)
    /\ calls[c].pc = "done"
    /\ calls[c].requests = 1
    /\ calls[c].err.kind # "none"
    /\ mut.kind = "none"
    /\ mutations = calls[c].submit[1].seq
    /\ GetSoundrawConfig(raw) # calls[c].submit[1].before

====
